---- MODULE Spec2Model ----
(***************************************************************************)
(* Model of the poll-based TCP broadcast echo server (echoserver.c): the   *)
(* descriptor list (InsertFd, RemoveFd), the broadcast routine DoEcho and  *)
(* the event loop of main; of the TCP client (echoclient.c); and of the    *)
(* UDP server and client (echoserver_udp.c, echoclient_udp.c).             *)
(*                                                                         *)
(* Spec is the TCP server process: main from its first statement, with the *)
(* operating system (poll, accept, recv, send, malloc) as the              *)
(* nondeterministic environment.  RegSpec drives the descriptor list alone *)
(* with arbitrary InsertFd and RemoveFd calls.  ClientSpec is the TCP      *)
(* client process, UdpSpec the UDP server process and UdpClientSpec the    *)
(* UDP client process.  Each specification runs one program; the variables *)
(* of the other programs keep their idle values.                           *)
(***************************************************************************)
EXTENDS Integers, Sequences, FiniteSets

(***************************************************************************)
(* Bounds of the model.                                                    *)
(***************************************************************************)
MaxClients == 3     \* descriptors the process may hold for clients at once
MaxMsg == 1         \* short message lengths 1..MaxMsg (BUF_SIZE is always tried)
MaxLen == 4         \* longest list driven by RegSpec
MaxCycles == 2      \* the count of empty/non-empty cycles saturates here
MaxLine == 3        \* short input lines have 1..MaxLine characters
MaxSends == 2       \* write calls of one client run
MaxAddrs == 3       \* distinct peer addresses that send datagrams to the UDP server

(***************************************************************************)
(* Program constants.                                                      *)
(***************************************************************************)
BUF_SIZE == 1024
LISTEN_FD == 3      \* socket() returns the lowest free descriptor; 0..2 are stdio
ENOENT == 2
EINTR == 4
EAGAIN == 11
ENOMEM == 12
EEXIST == 17
ECONNRESET == 104
SIZE_BITS == 64     \* width of size_t, the type of the length passed to send

VARIABLES
    pc,             \* position of main
    exitStatus,     \* "none" while running, then "failure", "success" or "crashed"
    fdList,         \* the list of descriptors, head first
    pfds,           \* the descriptors of the poll array (<<>> is NULL); pfds[0] is pfds[1] here
    revents,        \* indices (as in C, from 0) of pfds reported POLLIN by the last poll
    numFds,
    changed,
    startingFds,
    i,              \* index of the scan loop of main
    result,         \* result of DoEcho (its local, then main's copy)
    here,           \* position of DoEcho's walk in fdList (1 = head)
    nRecv,          \* byte count returned by the recv of the current DoEcho
    openFds,        \* descriptors the kernel holds open for the process
    sendLog,        \* send calls of the latest broadcast pass of this wake-up
    closeLog,       \* close calls on client descriptors since the last poll returned
    recvLog,        \* recv calls since the last poll returned
    cycles,         \* times the list went from non-empty to empty (saturating)
    regCall,        \* RegSpec: the last call, its argument and the list before it
    regRet,         \* RegSpec: the value the last call returned
    acceptedFd,     \* value accept returned since the last poll returned (0: not called)
    pollErrno,      \* errno of the poll that returned -1 (0: none did)
    setupOutcome,   \* how the argument check, socket, bind and listen of main went
    cPc,            \* echoclient.c: position of the client process
    cBuffer,        \* echoclient.c: buffer, as strlen(buffer) and where the bytes came from
    cRevents,       \* echoclient.c: slots of pfds reported POLLIN (0 stdin, 1 socket)
    cResult,        \* echoclient.c: result
    cSent,          \* echoclient.c: the write calls on the socket, as the buffers written
    cSockOpen,      \* echoclient.c: socketFd is open
    cExit,          \* echoclient.c: exit status of the client process
    cNulAt,         \* echoclient.c: the indices of buffer at which the NUL was stored
    uPc,            \* echoserver_udp.c: position of the server process
    uExit,          \* echoserver_udp.c: exit status of the server process
    addrList,       \* echoserver_udp.c: the list of peer addresses, head first
    uRevents,       \* echoserver_udp.c: slots of pfds with POLLIN (0 socket, 1 signalFd)
    uRecvLog,       \* echoserver_udp.c: recvfrom calls since poll was last called
    uSendLog,       \* echoserver_udp.c: sendto calls since poll was last called
    uOpen,          \* echoserver_udp.c: descriptors open ("sock", "sig")
    uCloseLog,      \* echoserver_udp.c: close calls of the run
    uLast,          \* echoserver_udp.c: per peer, whether its latest datagram had bytes
    ucPc,           \* echoclient_udp.c: position of the client process
    ucBuffer,       \* echoclient_udp.c: buffer, as strlen(buffer) and where the bytes came from
    ucRevents,      \* echoclient_udp.c: slots of pfds with POLLIN (0 socket, 1 stdin)
    ucResult,       \* echoclient_udp.c: result
    ucSent,         \* echoclient_udp.c: the sendto calls, as the lengths passed
    ucSockOpen,     \* echoclient_udp.c: socketFd is open
    ucExit          \* echoclient_udp.c: exit status of the client process

vars == <<pc, exitStatus, fdList, pfds, revents, numFds, changed, startingFds,
          i, result, here, nRecv, openFds, sendLog, closeLog, recvLog, cycles,
          regCall, regRet, acceptedFd, pollErrno, setupOutcome,
          cPc, cBuffer, cRevents, cResult, cSent, cSockOpen, cExit, cNulAt,
          uPc, uExit, addrList, uRevents, uRecvLog, uSendLog, uOpen, uCloseLog, uLast,
          ucPc, ucBuffer, ucRevents, ucResult, ucSent, ucSockOpen, ucExit>>

clientVars == <<cPc, cBuffer, cRevents, cResult, cSent, cSockOpen, cExit, cNulAt>>

\* what the model records of setup, accept and poll besides the program's own state
serverLog == <<acceptedFd, pollErrno, setupOutcome>>

\* the TCP server and the descriptor list
serverVars == <<pc, exitStatus, fdList, pfds, revents, numFds, changed, startingFds,
                i, result, here, nRecv, openFds, sendLog, closeLog, recvLog, cycles,
                regCall, regRet, serverLog>>

udpServerVars == <<uPc, uExit, addrList, uRevents, uRecvLog, uSendLog, uOpen, uCloseLog,
                   uLast>>
udpClientVars == <<ucPc, ucBuffer, ucRevents, ucResult, ucSent, ucSockOpen, ucExit>>
udpVars == <<udpServerVars, udpClientVars>>

ClientFds == (LISTEN_FD + 1)..(LISTEN_FD + MaxClients)
MsgLens == (1..MaxMsg) \cup {BUF_SIZE}

Range(s) == {s[k] : k \in 1..Len(s)}
NoDuplicates(s) == \A a, b \in 1..Len(s) : s[a] = s[b] => a = b
RemoveAt(s, k) == SubSeq(s, 1, k - 1) \o SubSeq(s, k + 1, Len(s))
Min(S) == CHOOSE x \in S : \A y \in S : x <= y
Count(s, x) == Cardinality({k \in 1..Len(s) : s[k] = x})

(***************************************************************************)
(* InsertFd.  The walk stops at the last node without comparing it.        *)
(* Result 0: reached the last node; otherwise the position of a match.     *)
(***************************************************************************)
RECURSIVE InsertWalk(_, _, _)
InsertWalk(fd, list, at) ==
    IF at >= Len(list) THEN 0
    ELSE IF list[at] = fd THEN at
    ELSE InsertWalk(fd, list, at + 1)

\* mutant: the new node is linked in at the head
InsertFdAtHead(fd, list, mallocOk) ==
    IF list = <<>>
    THEN IF mallocOk
         THEN [list |-> <<fd>>, ret |-> 0, fault |-> FALSE]
         ELSE [list |-> <<>>, ret |-> 0, fault |-> TRUE]
    ELSE IF InsertWalk(fd, list, 1) # 0
         THEN [list |-> list, ret |-> EEXIST, fault |-> FALSE]
         ELSE IF mallocOk
              THEN [list |-> <<fd>> \o list, ret |-> 0, fault |-> FALSE]
              ELSE [list |-> list, ret |-> ENOMEM, fault |-> FALSE]

\* fault: the store through the NULL that malloc returned for the first node
InsertFd(fd, list, mallocOk) ==
    IF list = <<>>
    THEN IF mallocOk
         THEN [list |-> <<fd>>, ret |-> 0, fault |-> FALSE]
         ELSE [list |-> <<>>, ret |-> 0, fault |-> TRUE]
    ELSE IF InsertWalk(fd, list, 1) # 0
         THEN [list |-> list, ret |-> EEXIST, fault |-> FALSE]
         ELSE IF mallocOk
              THEN [list |-> Append(list, fd), ret |-> 0, fault |-> FALSE]
              ELSE [list |-> list, ret |-> ENOMEM, fault |-> FALSE]

(***************************************************************************)
(* RemoveFd.  Position of the first node holding fd, 0 when the walk runs  *)
(* off the end.                                                            *)
(***************************************************************************)
RECURSIVE RemoveWalk(_, _, _)
RemoveWalk(fd, list, at) ==
    IF at > Len(list) THEN 0
    ELSE IF list[at] = fd THEN at
    ELSE RemoveWalk(fd, list, at + 1)

\* mutant: a walk that finds nothing unlinks the head
RemoveFdDropsHead(fd, list) ==
    IF list = <<>> THEN [list |-> list, ret |-> 0]
    ELSE LET k == RemoveWalk(fd, list, 1) IN
         IF k # 0 THEN [list |-> RemoveAt(list, k), ret |-> 0]
         ELSE [list |-> Tail(list), ret |-> ENOENT]

\* mutant: the empty list is reported like any other miss
RemoveFdEmptyENOENT(fd, list) ==
    LET k == RemoveWalk(fd, list, 1) IN
    IF k # 0 THEN [list |-> RemoveAt(list, k), ret |-> 0]
    ELSE [list |-> list, ret |-> ENOENT]

\* mutant: the walk stops at the last node without comparing it
RemoveFdMissesLast(fd, list) ==
    IF list = <<>> THEN [list |-> list, ret |-> 0]
    ELSE LET k == RemoveWalk(fd, list, 1) IN
         IF k # 0 /\ k < Len(list) THEN [list |-> RemoveAt(list, k), ret |-> 0]
         ELSE [list |-> list, ret |-> ENOENT]

\* mutant: deleting the head does not update *list
RemoveFdKeepsHead(fd, list) ==
    IF list = <<>> THEN [list |-> list, ret |-> 0]
    ELSE LET k == RemoveWalk(fd, list, 1) IN
         IF k = 0 THEN [list |-> list, ret |-> ENOENT]
         ELSE IF k = 1 THEN [list |-> list, ret |-> 0]
         ELSE [list |-> RemoveAt(list, k), ret |-> 0]

RemoveFd(fd, list) ==
    IF list = <<>> THEN [list |-> list, ret |-> 0]
    ELSE LET k == RemoveWalk(fd, list, 1) IN
         IF k # 0 THEN [list |-> RemoveAt(list, k), ret |-> 0]
         ELSE [list |-> list, ret |-> ENOENT]

(***************************************************************************)
(* The operating system as seen by the server.                             *)
(***************************************************************************)
\* An int handed to a size_t parameter: n for n >= 0, 2^SIZE_BITS + n for
\* n < 0.  The value is kept as the pair (base, off), standing for off when
\* base = 0 and for 2^base + off otherwise.
SizeT(n) == IF n < 0 THEN [base |-> SIZE_BITS, off |-> n] ELSE [base |-> 0, off |-> n]

\* m <= len, for a byte count m below 2^31
AtMost(m, len) == len.base # 0 \/ m <= len.off

\* what recv(clientFd, buffer, BUF_SIZE, 0) may return
RecvResults == {-1, 0} \cup MsgLens

\* what send(fd, buffer, len, MSG_DONTWAIT) may return, with errno: -1 for a
\* busy socket, -1 for another failure, or a count of bytes taken (k < len is a
\* partial send)
SendOutcomes(len) ==
    {[ret |-> -1, errno |-> EAGAIN], [ret |-> -1, errno |-> ECONNRESET]}
    \cup {[ret |-> k, errno |-> 0] : k \in {m \in MsgLens : AtMost(m, len)}}

\* accept returns the lowest descriptor that is not open
FreeFds == ClientFds \ openFds

(***************************************************************************)
(* main, up to the loop: argument count, socket, bind, listen.             *)
(***************************************************************************)
SetupOutcomes == {"badargs", "socketfail", "bindfail", "listenfail", "ok"}

\* mutant: the result of listen is not tested
SetupIgnoresListen ==
    /\ pc = "start"
    /\ \E o \in SetupOutcomes :
        /\ setupOutcome' = o
        /\ IF o \in {"ok", "listenfail"}
           THEN /\ pc' = "loop"
                /\ numFds' = 1
                /\ changed' = 1
                /\ exitStatus' = "none"
           ELSE /\ pc' = "exited"
                /\ exitStatus' = "failure"
                /\ UNCHANGED <<numFds, changed>>
    /\ UNCHANGED <<fdList, pfds, revents, startingFds, i, result, here, nRecv,
                   openFds, sendLog, closeLog, recvLog, cycles, regCall, regRet,
                   acceptedFd, pollErrno, clientVars, udpVars>>

\* argc, socket, bind and listen, each followed by exit(EXIT_FAILURE) when it
\* fails; then numFds = 1 and changed = 1
Setup ==
    /\ pc = "start"
    /\ \E o \in SetupOutcomes :
        /\ setupOutcome' = o
        /\ IF o = "ok"
           THEN /\ pc' = "loop"
                /\ numFds' = 1
                /\ changed' = 1
                /\ exitStatus' = "none"
           ELSE /\ pc' = "exited"
                /\ exitStatus' = "failure"
                /\ UNCHANGED <<numFds, changed>>
    /\ UNCHANGED <<fdList, pfds, revents, startingFds, i, result, here, nRecv,
                   openFds, sendLog, closeLog, recvLog, cycles, regCall, regRet,
                   acceptedFd, pollErrno, clientVars, udpVars>>

(***************************************************************************)
(* Top of the loop: the poll array is rebuilt when changed is set.         *)
(***************************************************************************)
\* the walk of fdList that fills slots 1..n-1; fault when it runs off the list
PollArray(list, n) ==
    IF n - 1 > Len(list)
    THEN [fault |-> TRUE, fds |-> <<>>]
    ELSE [fault |-> FALSE, fds |-> <<LISTEN_FD>> \o SubSeq(list, 1, n - 1)]

\* mutant: the poll array is rebuilt in every iteration
RebuildAlways ==
    /\ pc = "loop"
    /\ startingFds' = numFds
    /\ \E mallocOk \in BOOLEAN :
        IF ~mallocOk
        THEN /\ pc' = "returned"
             /\ exitStatus' = "success"
             /\ pfds' = <<>>
             /\ UNCHANGED changed
        ELSE LET a == PollArray(fdList, numFds) IN
             IF a.fault
             THEN /\ pc' = "crashed"
                  /\ exitStatus' = "crashed"
                  /\ UNCHANGED <<pfds, changed>>
             ELSE /\ pc' = "poll"
                  /\ pfds' = a.fds
                  /\ changed' = 0
                  /\ UNCHANGED exitStatus
    /\ UNCHANGED <<fdList, revents, numFds, i, result, here, nRecv, openFds,
                   sendLog, closeLog, recvLog, cycles, regCall, regRet, serverLog, clientVars, udpVars>>

Rebuild ==
    /\ pc = "loop"
    /\ changed # 0
    /\ startingFds' = numFds
    /\ \E mallocOk \in BOOLEAN :
        IF ~mallocOk
        THEN \* break, close(listenFd), return EXIT_SUCCESS
             /\ pc' = "returned"
             /\ exitStatus' = "success"
             /\ pfds' = <<>>
             /\ UNCHANGED changed
        ELSE LET a == PollArray(fdList, numFds) IN
             IF a.fault
             THEN /\ pc' = "crashed"
                  /\ exitStatus' = "crashed"
                  /\ UNCHANGED <<pfds, changed>>
             ELSE /\ pc' = "poll"
                  /\ pfds' = a.fds
                  /\ changed' = 0
                  /\ UNCHANGED exitStatus
    /\ UNCHANGED <<fdList, revents, numFds, i, result, here, nRecv, openFds,
                   sendLog, closeLog, recvLog, cycles, regCall, regRet, serverLog, clientVars, udpVars>>

NoRebuild ==
    /\ pc = "loop"
    /\ changed = 0
    /\ startingFds' = numFds
    /\ pc' = "poll"
    /\ UNCHANGED <<exitStatus, fdList, pfds, revents, numFds, changed, i, result,
                   here, nRecv, openFds, sendLog, closeLog, recvLog, cycles,
                   regCall, regRet, serverLog, clientVars, udpVars>>

(***************************************************************************)
(* poll(pfds, numFds, -1)                                                  *)
(***************************************************************************)
\* errno values of a poll that returns -1
PollErrnos == {EINTR, ENOMEM}

\* mutant: an interrupted poll is called again
PollFailRetriesEINTR ==
    /\ pc = "poll"
    /\ \E e \in PollErrnos :
        /\ pollErrno' = e
        /\ IF e = EINTR
           THEN /\ pc' = "poll"
                /\ UNCHANGED exitStatus
           ELSE /\ pc' = "exited"
                /\ exitStatus' = "failure"
    /\ UNCHANGED <<fdList, pfds, revents, numFds, changed, startingFds, i, result,
                   here, nRecv, openFds, sendLog, closeLog, recvLog, cycles,
                   regCall, regRet, acceptedFd, setupOutcome, clientVars, udpVars>>

\* mutant: the failure is reported and the descriptors are serviced all the same
PollFailGoesOn ==
    /\ pc = "poll"
    /\ \E e \in PollErrnos : pollErrno' = e
    /\ pc' = "scan"
    /\ UNCHANGED <<exitStatus, fdList, pfds, revents, numFds, changed, startingFds,
                   i, result, here, nRecv, openFds, sendLog, closeLog, recvLog,
                   cycles, regCall, regRet, acceptedFd, setupOutcome, clientVars, udpVars>>

\* poll returned -1: perror and exit(EXIT_FAILURE), whatever errno is
PollFail ==
    /\ pc = "poll"
    /\ \E e \in PollErrnos : pollErrno' = e
    /\ pc' = "exited"
    /\ exitStatus' = "failure"
    /\ UNCHANGED <<fdList, pfds, revents, numFds, changed, startingFds, i, result,
                   here, nRecv, openFds, sendLog, closeLog, recvLog, cycles,
                   regCall, regRet, acceptedFd, setupOutcome, clientVars, udpVars>>

\* mutant: readable clients are serviced first and the listening socket is
\* left for a later wake-up
PollClientsFirst ==
    /\ pc = "poll"
    /\ \E ready \in SUBSET (0..(numFds - 1)) :
        /\ revents' = ready
        /\ pc' = IF 0 \in ready /\ ready = {0} THEN "accept" ELSE "scan"
    /\ i' = 1
    /\ closeLog' = <<>>
    /\ recvLog' = <<>>
    /\ sendLog' = <<>>
    /\ nRecv' = 0
    /\ here' = 0
    /\ acceptedFd' = 0
    /\ UNCHANGED <<exitStatus, fdList, pfds, numFds, changed, startingFds, result,
                   openFds, cycles, regCall, regRet, pollErrno, setupOutcome, clientVars, udpVars>>

\* poll returned: revents are set, and the listening slot is tested first
Poll ==
    /\ pc = "poll"
    /\ \E ready \in SUBSET (0..(numFds - 1)) :
        /\ revents' = ready
        /\ pc' = IF 0 \in ready THEN "accept" ELSE "scan"
    /\ i' = 1
    /\ closeLog' = <<>>
    /\ recvLog' = <<>>
    /\ sendLog' = <<>>
    /\ nRecv' = 0
    /\ here' = 0
    /\ acceptedFd' = 0
    /\ UNCHANGED <<exitStatus, fdList, pfds, numFds, changed, startingFds, result,
                   openFds, cycles, regCall, regRet, pollErrno, setupOutcome, clientVars, udpVars>>

(***************************************************************************)
(* The listening socket is readable: accept, InsertFd, numFds++.           *)
(***************************************************************************)
\* mutant: a failed accept starts the next iteration
AcceptFailSkipsScan ==
    /\ pc = "accept"
    /\ acceptedFd' = -1
    /\ pc' = "loop"
    /\ UNCHANGED <<exitStatus, fdList, pfds, revents, numFds, changed, startingFds,
                   i, result, here, nRecv, openFds, sendLog, closeLog, recvLog,
                   cycles, regCall, regRet, pollErrno, setupOutcome, clientVars, udpVars>>

\* accept returned -1: perror, and on to the scan
AcceptFail ==
    /\ pc = "accept"
    /\ acceptedFd' = -1
    /\ pc' = "scan"
    /\ UNCHANGED <<exitStatus, fdList, pfds, revents, numFds, changed, startingFds,
                   i, result, here, nRecv, openFds, sendLog, closeLog, recvLog,
                   cycles, regCall, regRet, pollErrno, setupOutcome, clientVars, udpVars>>

\* mutant: changed is not set after the insertion
AcceptOkKeepsPollArray ==
    /\ pc = "accept"
    /\ FreeFds # {}
    /\ acceptedFd' = Min(FreeFds)
    /\ \E mallocOk \in BOOLEAN :
         LET r == InsertFd(acceptedFd', fdList, mallocOk) IN
         /\ openFds' = openFds \cup {acceptedFd'}
         /\ fdList' = r.list
         /\ IF r.fault
            THEN /\ pc' = "crashed"
                 /\ exitStatus' = "crashed"
                 /\ UNCHANGED numFds
            ELSE /\ pc' = "scan"
                 /\ numFds' = numFds + 1
                 /\ UNCHANGED exitStatus
    /\ UNCHANGED <<pfds, revents, changed, startingFds, i, result, here, nRecv,
                   sendLog, closeLog, recvLog, cycles, regCall, regRet, pollErrno, setupOutcome, clientVars, udpVars>>

\* accept returned a descriptor: InsertFd, numFds++, changed = 1
AcceptOk ==
    /\ pc = "accept"
    /\ FreeFds # {}
    /\ acceptedFd' = Min(FreeFds)
    /\ \E mallocOk \in BOOLEAN :
         LET r == InsertFd(acceptedFd', fdList, mallocOk) IN
         /\ openFds' = openFds \cup {acceptedFd'}
         /\ fdList' = r.list
         /\ IF r.fault
            THEN /\ pc' = "crashed"
                 /\ exitStatus' = "crashed"
                 /\ UNCHANGED <<numFds, changed>>
            ELSE /\ pc' = "scan"
                 /\ numFds' = numFds + 1
                 /\ changed' = 1
                 /\ UNCHANGED exitStatus
    /\ UNCHANGED <<pfds, revents, startingFds, i, result, here, nRecv, sendLog,
                   closeLog, recvLog, cycles, regCall, regRet, pollErrno, setupOutcome, clientVars, udpVars>>

(***************************************************************************)
(* The scan of slots 1..startingFds-1 and DoEcho.                          *)
(***************************************************************************)
ScanDone ==
    /\ pc = "scan"
    /\ ~(i < startingFds)
    /\ pc' = "loop"
    /\ UNCHANGED <<exitStatus, fdList, pfds, revents, numFds, changed, startingFds,
                   i, result, here, nRecv, openFds, sendLog, closeLog, recvLog,
                   cycles, regCall, regRet, serverLog, clientVars, udpVars>>

ScanSkip ==
    /\ pc = "scan"
    /\ i < startingFds
    /\ i \notin revents
    /\ i' = i + 1
    /\ UNCHANGED <<pc, exitStatus, fdList, pfds, revents, numFds, changed,
                   startingFds, result, here, nRecv, openFds, sendLog, closeLog,
                   recvLog, cycles, regCall, regRet, serverLog, clientVars, udpVars>>

\* mutant: only a failed recv drops the connection
NeedsRemovalOnError(r) == r < 0

\* main's test of the value DoEcho returned
NeedsRemoval(r) == r <= 0

\* mutant: revents of the slot is not tested
RecvAnySlot ==
    /\ pc = "scan"
    /\ i < startingFds
    /\ \E r \in RecvResults :
        /\ result' = r
        /\ recvLog' = Append(recvLog, [fd |-> pfds[i + 1], len |-> BUF_SIZE, ret |-> r])
        /\ IF r > 0
           THEN /\ pc' = "send"
                /\ nRecv' = r
                /\ here' = 1
                /\ UNCHANGED i
           ELSE /\ nRecv' = 0
                /\ here' = 0
                /\ IF NeedsRemoval(r)
                   THEN /\ pc' = "close"
                        /\ UNCHANGED i
                   ELSE /\ pc' = "scan"
                        /\ i' = i + 1
    /\ sendLog' = <<>>
    /\ UNCHANGED <<exitStatus, fdList, pfds, revents, numFds, changed, startingFds,
                   openFds, closeLog, cycles, regCall, regRet, serverLog, clientVars, udpVars>>

\* DoEcho up to the branch on the result of recv; for a result <= 0 DoEcho
\* returns it and main tests it
Recv ==
    /\ pc = "scan"
    /\ i < startingFds
    /\ i \in revents
    /\ \E r \in RecvResults :
        /\ result' = r
        /\ recvLog' = Append(recvLog, [fd |-> pfds[i + 1], len |-> BUF_SIZE, ret |-> r])
        /\ IF r > 0
           THEN /\ pc' = "send"
                /\ nRecv' = r
                /\ here' = 1
                /\ UNCHANGED i
           ELSE /\ nRecv' = 0
                /\ here' = 0
                /\ IF NeedsRemoval(r)
                   THEN /\ pc' = "close"
                        /\ UNCHANGED i
                   ELSE /\ pc' = "scan"
                        /\ i' = i + 1
    /\ sendLog' = <<>>
    /\ UNCHANGED <<exitStatus, fdList, pfds, revents, numFds, changed, startingFds,
                   openFds, closeLog, cycles, regCall, regRet, serverLog, clientVars, udpVars>>

\* mutant: a failed send ends the walk
SendStopsOnError ==
    /\ pc = "send"
    /\ here <= Len(fdList)
    /\ \E o \in SendOutcomes(SizeT(result)) :
        /\ sendLog' = Append(sendLog, [fd |-> fdList[here], len |-> SizeT(result),
                                       errno |-> o.errno])
        /\ result' = o.ret
        /\ here' = IF o.ret = -1 THEN Len(fdList) + 1 ELSE here + 1
    /\ UNCHANGED <<pc, exitStatus, fdList, pfds, revents, numFds, changed,
                   startingFds, i, nRecv, openFds, closeLog, recvLog, cycles,
                   regCall, regRet, serverLog, clientVars, udpVars>>

\* one turn of the while (here != NULL) loop
Send ==
    /\ pc = "send"
    /\ here <= Len(fdList)
    /\ \E o \in SendOutcomes(SizeT(result)) :
        /\ sendLog' = Append(sendLog, [fd |-> fdList[here], len |-> SizeT(result),
                                       errno |-> o.errno])
        /\ result' = o.ret
    /\ here' = here + 1
    /\ UNCHANGED <<pc, exitStatus, fdList, pfds, revents, numFds, changed,
                   startingFds, i, nRecv, openFds, closeLog, recvLog, cycles,
                   regCall, regRet, serverLog, clientVars, udpVars>>

\* mutant: the result of the last send is returned
EchoReturnLastSend(r) == r

\* result = 1 after the loop
EchoReturn(r) == 1

\* the walk reached NULL: DoEcho returns and main tests the result
EchoDone ==
    /\ pc = "send"
    /\ here > Len(fdList)
    /\ result' = EchoReturn(result)
    /\ IF NeedsRemoval(result')
       THEN /\ pc' = "close"
            /\ UNCHANGED i
       ELSE /\ pc' = "scan"
            /\ i' = i + 1
    /\ UNCHANGED <<exitStatus, fdList, pfds, revents, numFds, changed, startingFds,
                   here, nRecv, openFds, sendLog, closeLog, recvLog, cycles,
                   regCall, regRet, serverLog, clientVars, udpVars>>

\* result <= 0: close(pfds[i].fd)
CloseClient ==
    /\ pc = "close"
    /\ openFds' = openFds \ {pfds[i + 1]}
    /\ closeLog' = Append(closeLog, pfds[i + 1])
    /\ pc' = "remove"
    /\ UNCHANGED <<exitStatus, fdList, pfds, revents, numFds, changed, startingFds,
                   i, result, here, nRecv, sendLog, recvLog, cycles, regCall,
                   regRet, serverLog, clientVars, udpVars>>

\* mutant: changed is not set after the removal
RemoveKeepsPollArray ==
    /\ pc = "remove"
    /\ LET r == RemoveFd(pfds[i + 1], fdList) IN
        /\ fdList' = r.list
        /\ cycles' = IF fdList # <<>> /\ r.list = <<>> /\ cycles < MaxCycles
                     THEN cycles + 1 ELSE cycles
    /\ numFds' = numFds - 1
    /\ i' = i + 1
    /\ pc' = "scan"
    /\ UNCHANGED <<exitStatus, pfds, revents, changed, startingFds, result, here,
                   nRecv, openFds, sendLog, closeLog, recvLog, regCall, regRet,
                   serverLog, clientVars, udpVars>>

\* RemoveFd(pfds[i].fd, &fdList); numFds--; changed = 1; and on to the next slot
Remove ==
    /\ pc = "remove"
    /\ LET r == RemoveFd(pfds[i + 1], fdList) IN
        /\ fdList' = r.list
        /\ cycles' = IF fdList # <<>> /\ r.list = <<>> /\ cycles < MaxCycles
                     THEN cycles + 1 ELSE cycles
    /\ numFds' = numFds - 1
    /\ changed' = 1
    /\ i' = i + 1
    /\ pc' = "scan"
    /\ UNCHANGED <<exitStatus, pfds, revents, startingFds, result, here, nRecv,
                   openFds, sendLog, closeLog, recvLog, regCall, regRet, serverLog, clientVars, udpVars>>

NoCall == [op |-> "none", fd |-> 0, before |-> <<>>]

\* the client process is not part of the run
ClientIdle ==
    /\ cPc = "idle"
    /\ cBuffer = [len |-> 0, from |-> "uninit"]
    /\ cRevents = {}
    /\ cResult = 0
    /\ cSent = <<>>
    /\ cSockOpen = FALSE
    /\ cExit = "none"
    /\ cNulAt = {}

\* the UDP server is not part of the run
UdpServerIdle ==
    /\ uPc = "idle"
    /\ uExit = "none"
    /\ addrList = <<>>
    /\ uRevents = {}
    /\ uRecvLog = <<>>
    /\ uSendLog = <<>>
    /\ uOpen = {}
    /\ uCloseLog = <<>>
    /\ uLast = [a \in 1..MaxAddrs |-> "none"]

\* the UDP client is not part of the run
UdpClientIdle ==
    /\ ucPc = "idle"
    /\ ucBuffer = [len |-> 0, from |-> "uninit"]
    /\ ucRevents = {}
    /\ ucResult = 0
    /\ ucSent = <<>>
    /\ ucSockOpen = FALSE
    /\ ucExit = "none"

\* the UDP programs are not part of the run
UdpIdle ==
    /\ UdpServerIdle
    /\ UdpClientIdle

Init ==
    /\ pc = "start"
    /\ exitStatus = "none"
    /\ fdList = <<>>
    /\ pfds = <<>>
    /\ revents = {}
    /\ numFds = 0
    /\ changed = 0
    /\ startingFds = 0
    /\ i = 0
    /\ result = 0
    /\ here = 0
    /\ nRecv = 0
    /\ openFds = {}
    /\ sendLog = <<>>
    /\ closeLog = <<>>
    /\ recvLog = <<>>
    /\ cycles = 0
    /\ regCall = NoCall
    /\ regRet = 0
    /\ acceptedFd = 0
    /\ pollErrno = 0
    /\ setupOutcome = "none"
    /\ ClientIdle
    /\ UdpIdle

Next ==
    \/ Setup
    \/ Rebuild
    \/ NoRebuild
    \/ PollFail
    \/ Poll
    \/ AcceptFail
    \/ AcceptOk
    \/ ScanDone
    \/ ScanSkip
    \/ Recv
    \/ Send
    \/ EchoDone
    \/ CloseClient
    \/ Remove

Spec == Init /\ [][Next]_vars

(***************************************************************************)
(* RegSpec: the descriptor list under arbitrary calls.                     *)
(***************************************************************************)
RegInsert ==
    /\ pc = "reg"
    /\ Len(fdList) < MaxLen
    /\ \E fd \in ClientFds, mallocOk \in BOOLEAN :
        LET r == InsertFd(fd, fdList, mallocOk) IN
        /\ fdList' = r.list
        /\ regCall' = [op |-> "insert", fd |-> fd, before |-> fdList]
        /\ regRet' = r.ret
        /\ pc' = IF r.fault THEN "crashed" ELSE "reg"
    /\ UNCHANGED <<exitStatus, pfds, revents, numFds, changed, startingFds, i,
                   result, here, nRecv, openFds, sendLog, closeLog, recvLog, cycles,
                   serverLog, clientVars, udpVars>>

RegRemove ==
    /\ pc = "reg"
    /\ \E fd \in ClientFds :
        LET r == RemoveFd(fd, fdList) IN
        /\ fdList' = r.list
        /\ regCall' = [op |-> "remove", fd |-> fd, before |-> fdList]
        /\ regRet' = r.ret
    /\ UNCHANGED <<pc, exitStatus, pfds, revents, numFds, changed, startingFds, i,
                   result, here, nRecv, openFds, sendLog, closeLog, recvLog, cycles,
                   serverLog, clientVars, udpVars>>

RegInit ==
    /\ pc = "reg"
    /\ exitStatus = "none"
    /\ fdList = <<>>
    /\ pfds = <<>>
    /\ revents = {}
    /\ numFds = 0
    /\ changed = 0
    /\ startingFds = 0
    /\ i = 0
    /\ result = 0
    /\ here = 0
    /\ nRecv = 0
    /\ openFds = {}
    /\ sendLog = <<>>
    /\ closeLog = <<>>
    /\ recvLog = <<>>
    /\ cycles = 0
    /\ regCall = NoCall
    /\ regRet = 0
    /\ acceptedFd = 0
    /\ pollErrno = 0
    /\ setupOutcome = "none"
    /\ ClientIdle
    /\ UdpIdle

RegNext ==
    \/ RegInsert
    \/ RegRemove

RegSpec == RegInit /\ [][RegNext]_vars

(***************************************************************************)
(* ClientSpec: the TCP client (echoclient.c), main and DoEchoClient.        *)
(***************************************************************************)
\* lengths of the string fgets(buffer, BUF_SIZE, stdin) stores
LineLens == (1..MaxLine) \cup {BUF_SIZE - 1}

\* what write(socketFd, buffer, len) may return
WriteResults(len) == {-1, len} \cup {k \in 1..MaxMsg : k < len}

ClientSetupOutcomes == {"badargs", "addrinfofail", "noconnect", "ok"}

ClientSetup ==
    /\ cPc = "start"
    /\ \E o \in ClientSetupOutcomes :
        IF o = "ok"
        THEN /\ cPc' = "poll"
             /\ cSockOpen' = TRUE
             /\ UNCHANGED cExit
        ELSE /\ cPc' = "exited"
             /\ cExit' = "failure"
             /\ UNCHANGED cSockOpen
    /\ UNCHANGED <<cBuffer, cRevents, cResult, cSent, cNulAt>>
    /\ UNCHANGED <<pc, exitStatus, fdList, pfds, revents, numFds, changed,
                   startingFds, i, result, here, nRecv, openFds, sendLog, closeLog,
                   recvLog, cycles, regCall, regRet, serverLog, udpVars>>

\* result = poll(pfds, 2, -1); the result is not tested
ClientPoll ==
    /\ cPc = "poll"
    /\ \E ready \in SUBSET {0, 1} :
        /\ cRevents' = ready
        /\ cResult' \in {-1, Cardinality(ready)}
        /\ cPc' = IF 0 \in ready THEN "stdin" ELSE IF 1 \in ready THEN "sock" ELSE "poll"
    /\ UNCHANGED <<cBuffer, cSent, cSockOpen, cExit, cNulAt>>
    /\ UNCHANGED <<pc, exitStatus, fdList, pfds, revents, numFds, changed,
                   startingFds, i, result, here, nRecv, openFds, sendLog, closeLog,
                   recvLog, cycles, regCall, regRet, serverLog, udpVars>>

\* mutant: only a string of length 0 counts as the empty message
IsEmptyMessageStrict(n) == n < 1

\* strlen(buffer) <= 1
IsEmptyMessage(n) == n <= 1

\* stdin is readable: fgets, the test for the empty message, write.
\* line = 0 stands for fgets returning NULL, which leaves buffer as it was;
\* fresh tells of a write that fgets had just filled the buffer.
ClientStdin ==
    /\ cPc = "stdin"
    /\ \E line \in LineLens \cup {0} :
        LET buf == IF line = 0 THEN cBuffer ELSE [len |-> line, from |-> "stdin"] IN
        /\ cBuffer' = buf
        /\ IF IsEmptyMessage(buf.len)
           THEN /\ cPc' = "returned"
                /\ UNCHANGED <<cResult, cSent>>
           ELSE /\ Len(cSent) < MaxSends
                /\ cSent' = Append(cSent, [len |-> buf.len, from |-> buf.from,
                                            fresh |-> line # 0])
                /\ cResult' \in WriteResults(buf.len)
                /\ cPc' = IF 1 \in cRevents THEN "sock" ELSE "poll"
    /\ UNCHANGED <<cRevents, cSockOpen, cExit, cNulAt>>
    /\ UNCHANGED <<pc, exitStatus, fdList, pfds, revents, numFds, changed,
                   startingFds, i, result, here, nRecv, openFds, sendLog, closeLog,
                   recvLog, cycles, regCall, regRet, serverLog, udpVars>>

\* mutant: a read of 0 bytes is treated like any other read
ClientSockKeepsPolling ==
    /\ cPc = "sock"
    /\ \E r \in {-1, 0} \cup MsgLens :
        /\ cResult' = r
        /\ cBuffer' = IF r > 0 THEN [len |-> r, from |-> "socket"] ELSE cBuffer
        /\ IF r = 0
           THEN /\ cPc' = "poll"
                /\ UNCHANGED <<cNulAt, cExit>>
           ELSE /\ cNulAt' = cNulAt \cup {r}
                /\ \E harmless \in BOOLEAN :
                    IF r >= 0 \/ harmless
                    THEN /\ cPc' = "poll"
                         /\ UNCHANGED cExit
                    ELSE /\ cPc' = "crashed"
                         /\ cExit' = "crashed"
    /\ UNCHANGED <<cRevents, cSent, cSockOpen>>
    /\ UNCHANGED <<pc, exitStatus, fdList, pfds, revents, numFds, changed,
                   startingFds, i, result, here, nRecv, openFds, sendLog, closeLog,
                   recvLog, cycles, regCall, regRet, serverLog, udpVars>>

\* the socket is readable: read; 0 ends the loop, and any other result, -1
\* too, is the index of buffer[result] = 0.  The store at buffer[-1] lands in
\* whatever lies below buffer on the stack: harmless tells whether the
\* process survives it.
ClientSock ==
    /\ cPc = "sock"
    /\ \E r \in {-1, 0} \cup MsgLens :
        /\ cResult' = r
        /\ cBuffer' = IF r > 0 THEN [len |-> r, from |-> "socket"] ELSE cBuffer
        /\ IF r = 0
           THEN /\ cPc' = "returned"
                /\ UNCHANGED <<cNulAt, cExit>>
           ELSE /\ cNulAt' = cNulAt \cup {r}
                /\ \E harmless \in BOOLEAN :
                    IF r >= 0 \/ harmless
                    THEN /\ cPc' = "poll"
                         /\ UNCHANGED cExit
                    ELSE /\ cPc' = "crashed"
                         /\ cExit' = "crashed"
    /\ UNCHANGED <<cRevents, cSent, cSockOpen>>
    /\ UNCHANGED <<pc, exitStatus, fdList, pfds, revents, numFds, changed,
                   startingFds, i, result, here, nRecv, openFds, sendLog, closeLog,
                   recvLog, cycles, regCall, regRet, serverLog, udpVars>>

\* DoEchoClient returned: close(socketFd); return EXIT_SUCCESS
ClientReturn ==
    /\ cPc = "returned"
    /\ cSockOpen' = FALSE
    /\ cExit' = "success"
    /\ cPc' = "exited"
    /\ UNCHANGED <<cBuffer, cRevents, cResult, cSent, cNulAt>>
    /\ UNCHANGED <<pc, exitStatus, fdList, pfds, revents, numFds, changed,
                   startingFds, i, result, here, nRecv, openFds, sendLog, closeLog,
                   recvLog, cycles, regCall, regRet, serverLog, udpVars>>

\* buffer is not initialised: its string length is whatever the stack holds
ClientInit ==
    /\ cPc = "start"
    /\ cBuffer \in {[len |-> n, from |-> "uninit"] : n \in 0..MaxLine}
    /\ cRevents = {}
    /\ cResult = 0
    /\ cSent = <<>>
    /\ cSockOpen = FALSE
    /\ cExit = "none"
    /\ cNulAt = {}
    /\ pc = "idle"
    /\ exitStatus = "none"
    /\ fdList = <<>>
    /\ pfds = <<>>
    /\ revents = {}
    /\ numFds = 0
    /\ changed = 0
    /\ startingFds = 0
    /\ i = 0
    /\ result = 0
    /\ here = 0
    /\ nRecv = 0
    /\ openFds = {}
    /\ sendLog = <<>>
    /\ closeLog = <<>>
    /\ recvLog = <<>>
    /\ cycles = 0
    /\ regCall = NoCall
    /\ regRet = 0
    /\ acceptedFd = 0
    /\ pollErrno = 0
    /\ setupOutcome = "none"
    /\ UdpIdle

ClientNext ==
    \/ ClientSetup
    \/ ClientPoll
    \/ ClientStdin
    \/ ClientSock
    \/ ClientReturn

ClientSpec == ClientInit /\ [][ClientNext]_vars

(***************************************************************************)
(* UdpSpec: the UDP server (echoserver_udp.c), main, DoEcho, EchoMessage,   *)
(* AddAddr and RemoveAddr.                                                 *)
(***************************************************************************)
\* source addresses of datagrams; 0 is the sockaddr_in as memset left it
Addrs == 1..MaxAddrs

\* position of the first node holding addr, 0 when the walk runs off the end
RECURSIVE AddrWalk(_, _, _)
AddrWalk(addr, list, at) ==
    IF at > Len(list) THEN 0
    ELSE IF list[at] = addr THEN at
    ELSE AddrWalk(addr, list, at + 1)

\* mutant: the walk stops at the last node without comparing it
AddAddrMissesLast(addr, list, mallocOk, slack) ==
    IF list = <<>>
    THEN IF mallocOk /\ slack
         THEN [list |-> <<addr>>, ret |-> 0, fault |-> FALSE]
         ELSE [list |-> <<>>, ret |-> 0, fault |-> TRUE]
    ELSE IF AddrWalk(addr, SubSeq(list, 1, Len(list) - 1), 1) # 0
         THEN [list |-> list, ret |-> 0, fault |-> FALSE]
         ELSE IF mallocOk
              THEN [list |-> Append(list, addr), ret |-> 0, fault |-> FALSE]
              ELSE [list |-> list, ret |-> ENOMEM, fault |-> FALSE]

\* AddAddr.  The first node is allocated with sizeof(struct sockaddr_in), which
\* is smaller than the node: slack tells whether the block has room for the
\* next field all the same.  fault: the store through the NULL that malloc
\* returned for the first node, or the store of next past the end of a block
\* without slack.
AddAddr(addr, list, mallocOk, slack) ==
    IF list = <<>>
    THEN IF mallocOk /\ slack
         THEN [list |-> <<addr>>, ret |-> 0, fault |-> FALSE]
         ELSE [list |-> <<>>, ret |-> 0, fault |-> TRUE]
    ELSE IF AddrWalk(addr, list, 1) # 0
         THEN [list |-> list, ret |-> 0, fault |-> FALSE]
         ELSE IF mallocOk
              THEN [list |-> Append(list, addr), ret |-> 0, fault |-> FALSE]
              ELSE [list |-> list, ret |-> ENOMEM, fault |-> FALSE]

\* RemoveAddr returns 0 whether or not the address is found
RemoveAddr(addr, list) ==
    LET k == AddrWalk(addr, list, 1) IN
    IF k # 0 THEN [list |-> RemoveAt(list, k), ret |-> 0]
    ELSE [list |-> list, ret |-> 0]

\* mutant: the walk stops at the last node without sending to it
EchoMessageMissesLast(len, list) ==
    [k \in 1..(Len(list) - 1) |-> [to |-> list[k], len |-> len]]

\* EchoMessage: one sendto of strlen(message) bytes per node, head first; the
\* result of sendto is reported and has no other effect
EchoMessage(len, list) ==
    [k \in 1..Len(list) |-> [to |-> list[k], len |-> len]]

\* what recvfrom(socketFd, buffer, BUF_SIZE, 0, ...) may return
UdpRecvResults == {-1} \cup (0..MaxMsg) \cup {BUF_SIZE}

\* strlen(buffer) after recvfrom stored n bytes in the cleared buffer: a NUL
\* among the bytes ends the string early; BUF_SIZE bytes without a NUL leave
\* the end to buffer[BUF_SIZE], which is never written (BUF_SIZE + 1 stands
\* for a string that runs past it)
UdpStrLens(n) ==
    IF n < BUF_SIZE THEN 0..n ELSE {0, BUF_SIZE, BUF_SIZE + 1}

UdpSetupOutcomes == {"badargs", "socketfail", "bindfail", "ok"}

\* main up to the call of DoEcho
UdpSetup ==
    /\ uPc = "start"
    /\ \E o \in UdpSetupOutcomes :
        IF o = "ok"
        THEN /\ uPc' = "doecho"
             /\ uOpen' = {"sock"}
             /\ UNCHANGED <<uExit, uCloseLog>>
        ELSE /\ uPc' = "exited"
             /\ uExit' = "failure"
             /\ uCloseLog' = IF o = "bindfail" THEN Append(uCloseLog, "sock") ELSE uCloseLog
             /\ UNCHANGED uOpen
    /\ UNCHANGED <<addrList, uRevents, uRecvLog, uSendLog, uLast>>
    /\ UNCHANGED <<serverVars, clientVars, udpClientVars>>

UdpSignalOutcomes == {"maskfail", "signalfdfail", "ok"}

\* DoEcho up to the loop: sigprocmask, signalfd, pfds and addrList = NULL
UdpSignals ==
    /\ uPc = "doecho"
    /\ \E o \in UdpSignalOutcomes :
        IF o = "ok"
        THEN /\ uPc' = "poll"
             /\ uOpen' = uOpen \cup {"sig"}
        ELSE /\ uPc' = "returned"
             /\ UNCHANGED uOpen
    /\ addrList' = <<>>
    /\ UNCHANGED <<uExit, uRevents, uRecvLog, uSendLog, uCloseLog, uLast>>
    /\ UNCHANGED <<serverVars, clientVars, udpClientVars>>

\* poll(pfds, 2, -1); the result is not tested.  A poll that fails leaves
\* revents as they were, or cleared when a signal interrupted it: whatever
\* poll returns, any subset of the slots may then be seen with POLLIN.
UdpPoll ==
    /\ uPc = "poll"
    /\ \E ready \in SUBSET {0, 1} : uRevents' = ready
    /\ uRecvLog' = <<>>
    /\ uSendLog' = <<>>
    /\ uPc' = "wake"
    /\ UNCHANGED <<uExit, addrList, uOpen, uCloseLog, uLast>>
    /\ UNCHANGED <<serverVars, clientVars, udpClientVars>>

\* pfds[1].revents & POLLIN: break, restore the signal mask, close(signalFd)
\* and return
UdpSignal ==
    /\ uPc = "wake"
    /\ 1 \in uRevents
    /\ uOpen' = uOpen \ {"sig"}
    /\ uCloseLog' = Append(uCloseLog, "sig")
    /\ uPc' = "returned"
    /\ UNCHANGED <<uExit, addrList, uRevents, uRecvLog, uSendLog, uLast>>
    /\ UNCHANGED <<serverVars, clientVars, udpClientVars>>

\* neither slot has POLLIN
UdpNoData ==
    /\ uPc = "wake"
    /\ 1 \notin uRevents
    /\ 0 \notin uRevents
    /\ uPc' = "poll"
    /\ UNCHANGED <<uExit, addrList, uRevents, uRecvLog, uSendLog, uOpen, uCloseLog, uLast>>
    /\ UNCHANGED <<serverVars, clientVars, udpClientVars>>

\* mutant: the socket is serviced before the signal slot is looked at
UdpRecvBeforeSignal ==
    /\ uPc = "wake"
    /\ 0 \in uRevents
    /\ \E src \in Addrs, n \in UdpRecvResults, short \in BOOLEAN,
          mallocOk \in BOOLEAN, slack \in BOOLEAN :
        IF n < 0
        THEN /\ uRecvLog' = Append(uRecvLog, [from |-> src, addr |-> 0, n |-> n, str |-> 0,
                                              ret |-> 0, before |-> addrList])
             /\ uPc' = "poll"
             /\ UNCHANGED <<uExit, addrList, uSendLog, uLast>>
        ELSE \E str \in UdpStrLens(n) :
             LET addr == IF short THEN 0 ELSE src
                 r == IF str > 0 THEN AddAddr(addr, addrList, mallocOk, slack)
                      ELSE [list |-> RemoveAddr(addr, addrList).list,
                            ret |-> RemoveAddr(addr, addrList).ret, fault |-> FALSE]
             IN
             /\ uRecvLog' = Append(uRecvLog, [from |-> src, addr |-> addr, n |-> n, str |-> str,
                                              ret |-> r.ret, before |-> addrList])
             /\ uLast' = [uLast EXCEPT ![src] = IF n > 0 THEN "nonempty" ELSE "empty"]
             /\ addrList' = r.list
             /\ IF r.fault
                THEN /\ uPc' = "crashed"
                     /\ uExit' = "crashed"
                     /\ UNCHANGED uSendLog
                ELSE /\ uPc' = "poll"
                     /\ uSendLog' = IF str > 0 THEN uSendLog \o EchoMessage(str, r.list)
                                    ELSE uSendLog
                     /\ UNCHANGED uExit
    /\ UNCHANGED <<uRevents, uOpen, uCloseLog>>
    /\ UNCHANGED <<serverVars, clientVars, udpClientVars>>

\* pfds[0].revents & POLLIN with the signal slot clear: recvfrom, then AddAddr
\* and EchoMessage for a non-empty string, RemoveAddr for an empty one.
\* addrLen is passed to recvfrom without a value: short tells that it held
\* less than the size of the address, so that clientAddr stays as cleared.
\* The log entry keeps the list before the call and the value AddAddr or
\* RemoveAddr returned.
UdpRecv ==
    /\ uPc = "wake"
    /\ 1 \notin uRevents
    /\ 0 \in uRevents
    /\ \E src \in Addrs, n \in UdpRecvResults, short \in BOOLEAN,
          mallocOk \in BOOLEAN, slack \in BOOLEAN :
        IF n < 0
        THEN /\ uRecvLog' = Append(uRecvLog, [from |-> src, addr |-> 0, n |-> n, str |-> 0,
                                              ret |-> 0, before |-> addrList])
             /\ uPc' = "poll"
             /\ UNCHANGED <<uExit, addrList, uSendLog, uLast>>
        ELSE \E str \in UdpStrLens(n) :
             LET addr == IF short THEN 0 ELSE src
                 r == IF str > 0 THEN AddAddr(addr, addrList, mallocOk, slack)
                      ELSE [list |-> RemoveAddr(addr, addrList).list,
                            ret |-> RemoveAddr(addr, addrList).ret, fault |-> FALSE]
             IN
             /\ uRecvLog' = Append(uRecvLog, [from |-> src, addr |-> addr, n |-> n, str |-> str,
                                              ret |-> r.ret, before |-> addrList])
             /\ uLast' = [uLast EXCEPT ![src] = IF n > 0 THEN "nonempty" ELSE "empty"]
             /\ addrList' = r.list
             /\ IF r.fault
                THEN /\ uPc' = "crashed"
                     /\ uExit' = "crashed"
                     /\ UNCHANGED uSendLog
                ELSE /\ uPc' = "poll"
                     /\ uSendLog' = IF str > 0 THEN uSendLog \o EchoMessage(str, r.list)
                                    ELSE uSendLog
                     /\ UNCHANGED uExit
    /\ UNCHANGED <<uRevents, uOpen, uCloseLog>>
    /\ UNCHANGED <<serverVars, clientVars, udpClientVars>>

\* DoEcho returned: close(socketFd); result still holds what bind returned, so
\* main returns EXIT_SUCCESS
UdpReturn ==
    /\ uPc = "returned"
    /\ uOpen' = uOpen \ {"sock"}
    /\ uCloseLog' = Append(uCloseLog, "sock")
    /\ uExit' = "success"
    /\ uPc' = "exited"
    /\ UNCHANGED <<addrList, uRevents, uRecvLog, uSendLog, uLast>>
    /\ UNCHANGED <<serverVars, clientVars, udpClientVars>>

\* the TCP programs are not part of the run
TcpIdle ==
    /\ pc = "idle"
    /\ exitStatus = "none"
    /\ fdList = <<>>
    /\ pfds = <<>>
    /\ revents = {}
    /\ numFds = 0
    /\ changed = 0
    /\ startingFds = 0
    /\ i = 0
    /\ result = 0
    /\ here = 0
    /\ nRecv = 0
    /\ openFds = {}
    /\ sendLog = <<>>
    /\ closeLog = <<>>
    /\ recvLog = <<>>
    /\ cycles = 0
    /\ regCall = NoCall
    /\ regRet = 0
    /\ acceptedFd = 0
    /\ pollErrno = 0
    /\ setupOutcome = "none"
    /\ ClientIdle

\* pfds is not initialised: revents hold whatever the stack holds until the
\* first poll that succeeds
UdpInit ==
    /\ uPc = "start"
    /\ uExit = "none"
    /\ addrList = <<>>
    /\ uRevents \in SUBSET {0, 1}
    /\ uRecvLog = <<>>
    /\ uSendLog = <<>>
    /\ uOpen = {}
    /\ uCloseLog = <<>>
    /\ uLast = [a \in 1..MaxAddrs |-> "none"]
    /\ UdpClientIdle
    /\ TcpIdle

UdpNext ==
    \/ UdpSetup
    \/ UdpSignals
    \/ UdpPoll
    \/ UdpSignal
    \/ UdpNoData
    \/ UdpRecv
    \/ UdpReturn

UdpSpec == UdpInit /\ [][UdpNext]_vars

(***************************************************************************)
(* UdpClientSpec: the UDP client (echoclient_udp.c), main and DoEchoClient. *)
(***************************************************************************)
UdpClientSetupOutcomes == {"badargs", "addrinfofail", "nosocket", "ok"}

UdpClientSetup ==
    /\ ucPc = "start"
    /\ \E o \in UdpClientSetupOutcomes :
        IF o = "ok"
        THEN /\ ucPc' = "poll"
             /\ ucSockOpen' = TRUE
             /\ UNCHANGED ucExit
        ELSE /\ ucPc' = "exited"
             /\ ucExit' = "failure"
             /\ UNCHANGED ucSockOpen
    /\ UNCHANGED <<ucBuffer, ucRevents, ucResult, ucSent>>
    /\ UNCHANGED <<serverVars, clientVars, udpServerVars>>

\* poll(pfds, 2, -1); the result is not tested, and the socket slot is looked
\* at first
UdpClientPoll ==
    /\ ucPc = "poll"
    /\ \E ready \in SUBSET {0, 1} :
        /\ ucRevents' = ready
        /\ ucPc' = IF 0 \in ready THEN "sock" ELSE IF 1 \in ready THEN "stdin" ELSE "poll"
    /\ UNCHANGED <<ucBuffer, ucResult, ucSent, ucSockOpen, ucExit>>
    /\ UNCHANGED <<serverVars, clientVars, udpServerVars>>

\* the socket is readable: recv; a negative result ends the loop, any other
\* is printed.  recv stores r bytes and no terminator, so the string in buffer
\* ends where the longer of the new bytes and the old string ends.
UdpClientSock ==
    /\ ucPc = "sock"
    /\ \E r \in {-1, 0} \cup MsgLens :
        /\ ucResult' = r
        /\ IF r < 0
           THEN /\ ucPc' = "returned"
                /\ UNCHANGED ucBuffer
           ELSE /\ ucPc' = IF 1 \in ucRevents THEN "stdin" ELSE "poll"
                /\ ucBuffer' = [len |-> IF r > ucBuffer.len THEN r ELSE ucBuffer.len,
                                from |-> IF r > 0 THEN "socket" ELSE ucBuffer.from]
    /\ UNCHANGED <<ucRevents, ucSent, ucSockOpen, ucExit>>
    /\ UNCHANGED <<serverVars, clientVars, udpServerVars>>

\* strlen(buffer) == 1: the line is a lone newline and buffer[0] is cleared
Truncate(n) == IF n = 1 THEN 0 ELSE n

\* what sendto(socketFd, buffer, len, 0, ...) may return
SendtoResults(len) == {-1, len}

\* stdin is readable: fgets, the lone newline made empty, sendto, and the test
\* for the empty message after it.  line = 0 stands for fgets returning NULL.
UdpClientStdin ==
    /\ ucPc = "stdin"
    /\ \E line \in LineLens \cup {0} :
        IF line = 0
        THEN /\ ucResult' \in {0, 1}
             /\ ucPc' = "returned"
             /\ UNCHANGED <<ucBuffer, ucSent>>
        ELSE LET len == Truncate(line) IN
             /\ len > 0 => Len(ucSent) < MaxSends
             /\ ucBuffer' = [len |-> len, from |-> "stdin"]
             /\ ucSent' = Append(ucSent, len)
             /\ \E res \in SendtoResults(len) :
                 IF res < 0
                 THEN /\ ucResult' = res
                      /\ ucPc' = "returned"
                 ELSE IF len = 0
                      THEN /\ ucResult' = 0
                           /\ ucPc' = "returned"
                      ELSE /\ ucResult' = res
                           /\ ucPc' = "poll"
    /\ UNCHANGED <<ucRevents, ucSockOpen, ucExit>>
    /\ UNCHANGED <<serverVars, clientVars, udpServerVars>>

\* DoEchoClient returned: close(socketFd); return 0
UdpClientReturn ==
    /\ ucPc = "returned"
    /\ ucSockOpen' = FALSE
    /\ ucExit' = "success"
    /\ ucPc' = "exited"
    /\ UNCHANGED <<ucBuffer, ucRevents, ucResult, ucSent>>
    /\ UNCHANGED <<serverVars, clientVars, udpServerVars>>

\* buffer and pfds are not initialised
UdpClientInit ==
    /\ ucPc = "start"
    /\ ucBuffer \in {[len |-> n, from |-> "uninit"] : n \in 0..MaxLine}
    /\ ucRevents \in SUBSET {0, 1}
    /\ ucResult = 0
    /\ ucSent = <<>>
    /\ ucSockOpen = FALSE
    /\ ucExit = "none"
    /\ UdpServerIdle
    /\ TcpIdle

UdpClientNext ==
    \/ UdpClientSetup
    \/ UdpClientPoll
    \/ UdpClientSock
    \/ UdpClientStdin
    \/ UdpClientReturn

UdpClientSpec == UdpClientInit /\ [][UdpClientNext]_vars

TypeOK ==
    /\ pc \in {"start", "loop", "poll", "accept", "scan", "send", "close",
               "remove", "exited", "returned", "crashed", "reg", "idle"}
    /\ numFds \in 0..(MaxClients + 2)
    /\ cPc \in {"idle", "start", "poll", "stdin", "sock", "returned", "exited", "crashed"}
    /\ cNulAt \subseteq {-1} \cup MsgLens
    /\ uPc \in {"idle", "start", "doecho", "poll", "wake", "returned", "exited", "crashed"}
    /\ uRevents \subseteq {0, 1}
    /\ uOpen \subseteq {"sock", "sig"}
    /\ ucPc \in {"idle", "start", "poll", "stdin", "sock", "returned", "exited"}
    /\ ucRevents \subseteq {0, 1}

(***************************************************************************)
(* Properties.                                                             *)
(***************************************************************************)
SentFds == [k \in 1..Len(sendLog) |-> sendLog[k].fd]
PassComplete == sendLog # <<>> /\ (pc = "send" => here > Len(fdList))
FailedSends == {k \in 1..Len(sendLog) : sendLog[k].errno # 0}
AbsentRemove == regCall.op = "remove" /\ regCall.fd \notin Range(regCall.before)

\* C1: every send of a broadcast pass is offered exactly the N bytes that the
\* triggering recv returned, whatever the earlier sends of the pass returned.
C1_PayloadIsReceivedBytes ==
    \A k \in 1..Len(sendLog) : sendLog[k].len = SizeT(nRecv)

\* C2: under any sequence of InsertFd and RemoveFd calls the list never holds
\* a descriptor twice, and InsertFd of a descriptor already in the list
\* returns EEXIST and leaves the list as it was.
C2_NoDuplicateEntries ==
    /\ NoDuplicates(fdList)
    /\ (regCall.op = "insert" /\ regCall.fd \in Range(regCall.before))
        => (fdList = regCall.before /\ regRet = EEXIST)

\* C3: when poll is about to be called, every descriptor whose recv returned
\* 0 since the previous poll is out of the list, is closed, and was closed by
\* exactly one close call.
C3_ClosedPeerRemovedBeforePoll ==
    pc = "poll" =>
        \A k \in 1..Len(recvLog) :
            recvLog[k].ret = 0 =>
                /\ recvLog[k].fd \notin Range(fdList)
                /\ recvLog[k].fd \notin openFds
                /\ Count(closeLog, recvLog[k].fd) = 1

C3_Witness ==
    /\ pc = "poll"
    /\ \E k \in 1..Len(recvLog) : recvLog[k].ret = 0
    /\ fdList # <<>>

\* C4: a recv that returns 0 or an error is followed by no send; DoEcho
\* returns that value (<= 0), main closes that descriptor and removes exactly
\* that one entry from the list, and the loop goes on with the next slot.
C4_ReadFailureRemovesOne ==
    [][ /\ (pc = "scan" /\ Len(recvLog') > Len(recvLog) /\ result' <= 0)
            => (pc' = "close" /\ sendLog' = <<>> /\ fdList' = fdList)
        /\ pc = "close"
            => /\ pc' = "remove"
               /\ result <= 0
               /\ closeLog' = Append(closeLog, pfds[i + 1])
               /\ fdList' = fdList
               /\ sendLog' = sendLog
        /\ pc = "remove"
            => /\ Len(fdList') = Len(fdList) - 1
               /\ Range(fdList') = Range(fdList) \ {pfds[i + 1]}
               /\ openFds' = openFds
               /\ sendLog' = sendLog
               /\ pc' = "scan"
               /\ i' = i + 1
               /\ exitStatus' = "none" ]_vars

C4_Witness ==
    /\ pc = "scan"
    /\ Len(recvLog) = 2
    /\ recvLog[1].ret = -1
    /\ recvLog[2].ret = 0
    /\ Len(closeLog) = 2
    /\ Len(fdList) = 1

\* C5: a broadcast pass issues exactly one send to every descriptor of the
\* list, the one that was read included; a send that fails (EAGAIN or any
\* other error) is followed by the send to the next descriptor, not by a retry
\* and not by the end of the pass.
C5_OneSendPerHandle ==
    /\ [](PassComplete =>
            /\ Len(sendLog) = Len(fdList)
            /\ \A fd \in Range(fdList) : Cardinality({k \in 1..Len(sendLog) : sendLog[k].fd = fd}) = 1
            /\ recvLog[Len(recvLog)].fd \in Range(SentFds))
    /\ [][ (pc = "send" /\ here <= Len(fdList))
            => /\ pc' = "send"
               /\ here' = here + 1
               /\ sendLog' # sendLog
               /\ SubSeq(sendLog', 1, Len(sendLog)) = sendLog
               /\ Len(sendLog') = here ]_vars

C5_Witness ==
    /\ PassComplete
    /\ pc = "scan"
    /\ Len(fdList) = 3
    /\ sendLog[1].errno = EAGAIN
    /\ sendLog[2].errno = ECONNRESET
    /\ sendLog[3].errno = 0

\* C6: every change of the list is an append at the end or the deletion of
\* one entry with the others left in their order, and the sends of a broadcast
\* pass go to the descriptors in list order.
ListStep ==
    \/ fdList' = fdList
    \/ \E fd \in ClientFds : fdList' = Append(fdList, fd)
    \/ \E k \in 1..Len(fdList) : fdList' = RemoveAt(fdList, k)

C6_InsertionOrder ==
    /\ [](pc = "send" => SentFds = SubSeq(fdList, 1, here - 1))
    /\ [](PassComplete => SentFds = fdList)
    /\ [][ListStep]_vars

C6_Witness ==
    /\ PassComplete
    /\ pc = "scan"
    /\ fdList = <<LISTEN_FD + 2, LISTEN_FD + 3, LISTEN_FD + 1>>

\* C7: from the first send of a broadcast pass to the return of DoEcho the
\* list, the open descriptors and numFds do not change, and DoEcho returns a
\* positive value so that main goes on to the next slot, whichever sends
\* failed.
C7_SendFailureRemovesNothing ==
    [][ pc = "send"
            => /\ fdList' = fdList
               /\ openFds' = openFds
               /\ numFds' = numFds
               /\ closeLog' = closeLog
               /\ (pc' # "send" => (result' > 0 /\ pc' = "scan" /\ i' = i + 1)) ]_vars

C7_Witness ==
    /\ PassComplete
    /\ pc = "scan"
    /\ result = 1
    /\ Len(sendLog) = 2
    /\ FailedSends = {1, 2}
    /\ closeLog = <<>>

\* C8: RemoveFd of a descriptor that is not in the list leaves the list as it
\* was, empty or not.
C8_AbsentRemoveKeepsList ==
    AbsentRemove => fdList = regCall.before

C8_Witness ==
    /\ AbsentRemove
    /\ Len(regCall.before) = 2
    /\ fdList = regCall.before

\* C9 as stated: RemoveFd of a descriptor that is not in the list returns 0,
\* for the empty and for a non-empty list.
C9_AbsentRemoveReturnsZero ==
    AbsentRemove => regRet = 0

\* C9 as amended: RemoveFd of a descriptor that is not in the list returns 0
\* when the list is empty and ENOENT when the list is not empty.
C9_AbsentRemoveReturn ==
    AbsentRemove => regRet = (IF regCall.before = <<>> THEN 0 ELSE ENOENT)

C9_Witness ==
    /\ AbsentRemove
    /\ regCall.before # <<>>
    /\ regRet = ENOENT

ReadyClients == revents \ {0}
FailedRead(e) == e.ret <= 0
FailedReads == SelectSeq(recvLog, FailedRead)
FailedReadFds == [k \in 1..Len(FailedReads) |-> FailedReads[k].fd]
LoopEntered == startingFds > 0

\* C11: when poll is about to be called the poll array is the listening
\* descriptor followed by the descriptors of the list in list order, numFds is
\* 1 plus the length of the list, and a descriptor accepted since the previous
\* poll is in the array.
C11_PollSetIsRegistry ==
    pc = "poll" =>
        /\ pfds = <<LISTEN_FD>> \o fdList
        /\ numFds = 1 + Len(fdList)
        /\ (acceptedFd > 0 => acceptedFd \in Range(pfds))

C11_Witness ==
    /\ pc = "poll"
    /\ acceptedFd = LISTEN_FD + 1
    /\ fdList = <<LISTEN_FD + 2, LISTEN_FD + 3, LISTEN_FD + 1>>

\* C12: an accept that returns -1 changes neither the list nor numFds nor the
\* poll array and leads to the scan; every client slot reported readable by
\* that poll is then read, and the loop comes back to poll with the listening
\* descriptor in slot 0 (with the same array when no client was removed).
C12_FailedAcceptNotFatal ==
    /\ [][ (pc = "accept" /\ acceptedFd' = -1)
            => /\ UNCHANGED <<fdList, numFds, pfds, changed, revents, openFds, exitStatus>>
               /\ pc' = "scan"
               /\ i' = 1 ]_vars
    /\ []((pc = "loop" /\ acceptedFd = -1)
            => /\ exitStatus = "none"
               /\ {recvLog[k].fd : k \in 1..Len(recvLog)} = {pfds[k + 1] : k \in ReadyClients}
               /\ (closeLog = <<>> => changed = 0))
    /\ [](pc = "poll" => pfds[1] = LISTEN_FD)

C12_Witness ==
    /\ pc = "poll"
    /\ acceptedFd = -1
    /\ Len(recvLog) = 2
    /\ closeLog = <<>>

\* C13: recv, send and close are only ever issued on a descriptor that is
\* open, and no send of a wake-up goes to a descriptor closed earlier in that
\* wake-up: after client 1 was removed, a message of client 2 is sent to
\* client 2 only.
C13_RemovedHandleIsTerminal ==
    /\ [][ /\ Len(recvLog') > Len(recvLog) => recvLog'[Len(recvLog')].fd \in openFds
           /\ Len(sendLog') > Len(sendLog) => sendLog'[Len(sendLog')].fd \in openFds
           /\ Len(closeLog') > Len(closeLog) => closeLog'[Len(closeLog')] \in openFds ]_vars
    /\ [](Range(SentFds) \cap Range(closeLog) = {})

C13_Witness ==
    /\ PassComplete
    /\ closeLog = <<LISTEN_FD + 1>>
    /\ fdList = <<LISTEN_FD + 2>>
    /\ SentFds = <<LISTEN_FD + 2>>
    /\ Len(recvLog) = 2

\* C14 as stated: no client descriptor is closed or removed from the list
\* before every client slot reported readable by the poll has been read.
C14_RemovalsAfterScan ==
    closeLog # <<>> => Len(recvLog) = Cardinality(ReadyClients)

\* C14 as amended: a descriptor whose recv returned <= 0 is closed and removed
\* from the list at once, before the next slot of the scan is looked at.
C14_RemovalAtOnce ==
    pc \notin {"close", "remove"} =>
        /\ closeLog = FailedReadFds
        /\ Range(closeLog) \cap Range(fdList) = {}

C14_Witness ==
    /\ pc = "scan"
    /\ closeLog # <<>>
    /\ i < startingFds
    /\ i \in revents

\* C15 as stated: the list never holds a descriptor that is closed.
C15_RegistryHandlesOpen ==
    Range(fdList) \subseteq openFds

\* C15 as amended: the list holds a closed descriptor only between the close
\* of a descriptor and the RemoveFd of that descriptor which follows it.
C15_ClosedThenRemoved ==
    /\ pc # "remove" => Range(fdList) \subseteq openFds
    /\ pc = "remove" => Range(fdList) \ openFds = {pfds[i + 1]}

C15_Witness ==
    /\ pc = "remove"
    /\ Len(fdList) = 2
    /\ pfds[i + 1] = fdList[2]

\* C16: a poll that returns -1 ends the process with failure status, and
\* after that no accept, recv, send or close is issued.
C16_PollFailureIsFatal ==
    /\ [](pollErrno # 0 => (pc = "exited" /\ exitStatus = "failure"))
    /\ [][ pc = "exited"
            => /\ pc' = "exited"
               /\ UNCHANGED <<acceptedFd, recvLog, sendLog, closeLog, openFds>> ]_vars

C16_Witness ==
    /\ pollErrno = ENOMEM
    /\ pc = "exited"
    /\ Len(fdList) = 2

\* C17 as stated: after a poll that failed with EINTR the process has not
\* exited.
C17_InterruptedPollNotFatal ==
    pollErrno = EINTR => exitStatus = "none"

\* C17 as amended: a poll that failed with EINTR ends the process with failure
\* status like any other failure of poll.
C17_InterruptedPollIsFatal ==
    pollErrno = EINTR => (pc = "exited" /\ exitStatus = "failure")

C17_Witness ==
    /\ pollErrno = EINTR
    /\ fdList # <<>>

\* C18: once the loop has been entered the process ends only by the exit that
\* follows a failed poll.
C18_LoopEndsOnlyOnPollFailure ==
    (LoopEntered /\ exitStatus # "none") => (pc = "exited" /\ pollErrno # 0)

\* C19: in a wake-up that reports the listening socket readable, accept is
\* called before any recv: no recv has been issued when accept is called, and
\* whenever a recv has been issued accept has already returned.
C19_ListenerFirst ==
    /\ [](pc = "accept" => (recvLog = <<>> /\ acceptedFd = 0))
    /\ []((0 \in revents /\ recvLog # <<>>) => acceptedFd # 0)
    /\ [][ acceptedFd' \notin {0, acceptedFd} => (recvLog = <<>> /\ recvLog' = <<>>) ]_vars

C19_Witness ==
    /\ acceptedFd = LISTEN_FD + 3
    /\ Len(recvLog) = 2
    /\ pc = "scan"

\* C20: a line of length <= 1 read from stdin is not written to the socket
\* and ends the loop of DoEchoClient; the client then closes the socket and
\* ends with success status.
C20_EmptyLineEndsClient ==
    /\ [][ (cPc = "stdin" /\ cBuffer'.from = "stdin" /\ cBuffer'.len <= 1)
            => (cPc' = "returned" /\ cSent' = cSent) ]_vars
    /\ [][ cPc = "returned"
            => /\ cPc' = "exited"
               /\ cSockOpen /\ ~cSockOpen'
               /\ cExit' = "success"
               /\ cSent' = cSent ]_vars
    /\ [](\A k \in 1..Len(cSent) : cSent[k].len > 1)
    /\ []((cBuffer.from = "stdin" /\ cBuffer.len <= 1) => cPc \in {"returned", "exited"})

C20_Witness ==
    /\ cPc = "exited"
    /\ cBuffer = [len |-> 1, from |-> "stdin"]
    /\ cExit = "success"
    /\ ~cSockOpen
    /\ Len(cSent) = 1

\* C21: when read on the socket returns 0 the loop of DoEchoClient ends with
\* nothing more written to the socket, and the client then closes the socket
\* and ends with success status.
C21_PeerCloseEndsClient ==
    /\ [][ (cPc = "sock" /\ cResult' = 0) => (cPc' = "returned" /\ cSent' = cSent) ]_vars
    /\ [][ cPc = "returned"
            => /\ cPc' = "exited"
               /\ cExit' = "success"
               /\ cSent' = cSent ]_vars
    /\ []((cPc \in {"sock", "poll", "stdin"}) => cExit = "none")

C21_Witness ==
    /\ cPc = "exited"
    /\ cResult = 0
    /\ cExit = "success"
    /\ Len(cSent) = 1
    /\ cBuffer.from = "socket"

\* C22: poll is called only after the argument count was right and socket,
\* bind and listen all succeeded; any other outcome of the setup ends the
\* process with failure status, before the loop and before any poll.
C22_LoopOnlyAfterSetup ==
    /\ (pc \in {"loop", "poll", "accept", "scan", "send", "close", "remove"}
            => setupOutcome = "ok")
    /\ (LoopEntered => setupOutcome = "ok")
    /\ (setupOutcome \notin {"none", "ok"}
            => (pc = "exited" /\ exitStatus = "failure" /\ pollErrno = 0))

C22_Witness ==
    /\ setupOutcome = "listenfail"
    /\ pc = "exited"
    /\ exitStatus = "failure"
    /\ ~LoopEntered

\* C26: RemoveFd returns 0 exactly when the descriptor was in the list (and is
\* then removed), and ENOENT whenever it was not, the empty list included.
C26_RemoveReturn ==
    regCall.op = "remove"
        => IF regCall.fd \in Range(regCall.before)
           THEN regRet = 0 /\ Len(fdList) = Len(regCall.before) - 1
           ELSE regRet = ENOENT /\ fdList = regCall.before

\* C27: InsertFd returns 0 only when the descriptor was appended, returns a
\* non-zero error with the list unchanged otherwise, and never stores through
\* the NULL of a failed allocation.
C27_InsertReturn ==
    regCall.op = "insert"
        => /\ pc # "crashed"
           /\ regRet = 0 => fdList = Append(regCall.before, regCall.fd)
           /\ regRet # 0 => fdList = regCall.before

\* C28: numFds counts the listening descriptor and the descriptors of the
\* list, an accepted descriptor that InsertFd did not add is not counted, and
\* the rebuild of the poll array never walks past the end of the list.
C28_CountedOnlyWhenAdded ==
    /\ [](pc \in {"loop", "poll", "scan"} => numFds = Len(fdList) + 1)
    /\ [][pc = "loop" => pc' # "crashed"]_vars

\* C29: the poll array is rebuilt only at the first iteration or in the
\* iteration after a wake-up in which a connection was accepted or a client
\* was removed; after any other wake-up poll is called next with the same
\* array.
AtStartUp == pfds = <<>>
RegistryChanged == acceptedFd > 0 \/ closeLog # <<>>

C29_RebuildOnlyAfterChange ==
    /\ [](pc = "loop" => (changed # 0 <=> (AtStartUp \/ RegistryChanged)))
    /\ [][ (pc = "loop" /\ ~AtStartUp /\ ~RegistryChanged)
            => (pc' = "poll" /\ pfds' = pfds /\ numFds' = numFds) ]_vars
    /\ [][ pfds' # pfds => (pc = "loop" /\ (AtStartUp \/ RegistryChanged)) ]_vars

C29_Witness ==
    /\ pc = "poll"
    /\ Len(recvLog) = 2
    /\ closeLog = <<>>
    /\ acceptedFd = -1
    /\ Len(pfds) = 3

\* C30: in one wake-up recv is called once, for BUF_SIZE bytes, on the
\* descriptor of every client slot that poll reported readable, and on no
\* other descriptor; the descriptor accepted in the wake-up is not read.
RecvFds == [k \in 1..Len(recvLog) |-> recvLog[k].fd]
InWakeUp == pc \in {"accept", "scan", "send", "close", "remove", "loop"}

C30_OneRecvPerReadySlot ==
    InWakeUp
        => /\ \A k \in 1..Len(recvLog) :
                /\ recvLog[k].len = BUF_SIZE
                /\ recvLog[k].ret <= BUF_SIZE
                /\ recvLog[k].fd # acceptedFd
                /\ \E j \in ReadyClients : recvLog[k].fd = pfds[j + 1]
           /\ NoDuplicates(RecvFds)
           /\ pc = "loop" => Range(RecvFds) = {pfds[j + 1] : j \in ReadyClients}

C30_Witness ==
    /\ pc = "loop"
    /\ Len(pfds) = 3
    /\ Cardinality(ReadyClients) = 1
    /\ Len(recvLog) = 1
    /\ acceptedFd > 0

SourceOf(log) == log[Len(log)].addr

C25_EmptyLineNotSent ==
    /\ \A k \in 1..Len(ucSent) : ucSent[k] > 0
    /\ (ucBuffer = [len |-> 0, from |-> "stdin"] => ucPc \in {"returned", "exited"})

\* C31: a descriptor that accept returned in this wake-up is among the
\* descriptors of every broadcast pass of the wake-up, and no recv of the
\* wake-up is on it.
C31_AcceptedIsTarget ==
    /\ (PassComplete /\ acceptedFd > 0) => acceptedFd \in Range(SentFds)
    /\ \A k \in 1..Len(recvLog) : recvLog[k].fd # acceptedFd

\* C32: whenever poll is about to be called the client descriptors that are
\* open are the descriptors of the list, each listed once.
C32_OpenIsRegistered ==
    pc = "poll" => (openFds = Range(fdList) /\ NoDuplicates(fdList))

C32_Witness ==
    /\ pc = "poll"
    /\ closeLog # <<>>
    /\ acceptedFd > 0
    /\ Len(fdList) = 2
    /\ Cardinality(openFds) = 2

\* C33: every index at which DoEchoClient stores the terminating NUL lies in
\* 0..BUF_SIZE, whatever read returned.
C33_NulInsideBuffer ==
    \A n \in cNulAt : 0 <= n /\ n <= BUF_SIZE

\* C34: every write of the client carries a line that fgets has just stored:
\* nothing is written when fgets returns NULL, and no buffer content that came
\* from the socket or was never set is written.
C34_OnlyFreshLinesSent ==
    \A k \in 1..Len(cSent) : cSent[k].fresh /\ cSent[k].from = "stdin"

\* C35: the address list never holds an address twice, and AddAddr of an
\* address that is in the list, at the last node or before it, returns 0 and
\* leaves the list as it was.
C35_NoDuplicateAddresses ==
    /\ NoDuplicates(addrList)
    /\ \A k \in 1..Len(uRecvLog) :
          (uRecvLog[k].str > 0 /\ uRecvLog[k].addr \in Range(uRecvLog[k].before))
              => /\ uRecvLog[k].ret = 0
                 /\ addrList = uRecvLog[k].before
                 /\ uPc # "crashed"

C35_Witness ==
    /\ Len(uRecvLog) = 1
    /\ uRecvLog[1].str > 0
    /\ Len(uRecvLog[1].before) = 3
    /\ uRecvLog[1].addr = uRecvLog[1].before[3]
    /\ uPc = "poll"

\* C36: when poll is called a peer address is in the list exactly when the
\* latest datagram received from it had bytes; a datagram with bytes is echoed
\* to every listed address, its sender among them, and a datagram without
\* bytes is not echoed.
EchoTargets == {uSendLog[k].to : k \in 1..Len(uSendLog)}

C36_ListedIffLastNonEmpty ==
    /\ uPc = "poll" => \A a \in Addrs : a \in Range(addrList) <=> uLast[a] = "nonempty"
    /\ \A k \in 1..Len(uRecvLog) :
          /\ uRecvLog[k].n > 0
                => (uRecvLog[k].from \in EchoTargets /\ EchoTargets = Range(addrList))
          /\ uRecvLog[k].n = 0 => uSendLog = <<>>

====
